---- MODULE Spec2Model ----
(***************************************************************************)
(* Model of replay_buffer.py: the ReplayBuffer actor (save_game,           *)
(* get_self_play_count, get_batch) and the pure target builder            *)
(* make_target.                                                            *)
(*                                                                         *)
(* Python lists are sequences; a Python index i (0-based) is i + 1 here.   *)
(* Floats are modelled as exact rationals <<numerator, denominator>> in    *)
(* lowest terms, so rounding error is outside the model.                   *)
(***************************************************************************)
EXTENDS Integers, Sequences, FiniteSets, TLC

VARIABLES config, buffer, self_play_count, saved, result, tin, tout

vars == <<config, buffer, self_play_count, saved, result, tin, tout>>

(* ---------------------------- bounds ----------------------------------- *)
MaxWindow == 2
MaxGames == 3
MaxServedBatch == 1
MaxBatch == 4
BatchUnroll == 1
BatchTd == 1
MaxLen == 3
MaxUnroll == 2
MaxTd == 2

(* ------------------------- exact rationals ----------------------------- *)
Abs(n) == IF n < 0 THEN -n ELSE n

Min(a, b) == IF a < b THEN a ELSE b

RECURSIVE GCD(_, _)
GCD(a, b) == IF b = 0 THEN a ELSE GCD(b, a % b)

Rat(n, d) ==
    LET g == GCD(Abs(n), d) IN <<n \div g, d \div g>>

RatOfInt(n) == <<n, 1>>

RatAdd(x, y) == Rat(x[1] * y[2] + y[1] * x[2], x[2] * y[2])

RatMul(x, y) == Rat(x[1] * y[1], x[2] * y[2])

RatNeg(x) == <<-x[1], x[2]>>

RECURSIVE RatPow(_, _)
RatPow(x, k) == IF k = 0 THEN RatOfInt(1) ELSE RatMul(x, RatPow(x, k - 1))

RECURSIVE RatSum(_)
RatSum(s) == IF s = <<>> THEN RatOfInt(0) ELSE RatAdd(Head(s), RatSum(Tail(s)))

(* ------------------------- Python list helpers ------------------------- *)
InRange(s, i) == 0 <= i /\ i < Len(s)

\* s[i]; an out-of-range read raises IndexError, which make_target_run
\* reports through its reads; the placeholder 0 never reaches a result.
Get(s, i) == IF InRange(s, i) THEN s[i + 1] ELSE 0

\* s[lo:hi] for 0 <= lo: clipped to the list, never raises
Slice(s, lo, hi) == SubSeq(s, Min(lo, Len(s)) + 1, Min(hi, Len(s)))

\* a list built by appending, held as a whole
List(s) == s \o <<>>

\* s[:]
Copy(s) == s

\* s[::-1]
RECURSIVE Reversed(_)
Reversed(s) == IF s = <<>> THEN <<>> ELSE Append(Reversed(Tail(s)), Head(s))

\* sum(exploit_symmetries)
RECURSIVE Sum(_)
Sum(s) == IF s = <<>> THEN 0 ELSE Head(s) + Sum(Tail(s))

(* ------------------------------ make_target ---------------------------- *)
\* Bootstrap with the bound test off by one (<= for <)
BootstrapInclusive(game_history, current_index, td_steps, discount) ==
    LET bootstrap_index == current_index + td_steps IN
    IF bootstrap_index <= Len(game_history.root_values)
    THEN [value |-> RatMul(RatOfInt(Get(game_history.root_values, bootstrap_index)),
                           RatPow(discount, td_steps)),
          reads |-> {<<"root_values", bootstrap_index>>}]
    ELSE [value |-> RatOfInt(0), reads |-> {}]

\* lines 118-122: the discounted root value td_steps ahead, or 0
Bootstrap(game_history, current_index, td_steps, discount) ==
    LET bootstrap_index == current_index + td_steps IN
    IF bootstrap_index < Len(game_history.root_values)
    THEN [value |-> RatMul(RatOfInt(Get(game_history.root_values, bootstrap_index)),
                           RatPow(discount, td_steps)),
          reads |-> {<<"root_values", bootstrap_index>>}]
    ELSE [value |-> RatOfInt(0), reads |-> {}]

\* RewardTerm comparing with the player at offset i instead of current_index + i
RewardTermFromStart(game_history, current_index, i, reward, discount) ==
    RatMul(IF Get(game_history.to_play_history, current_index)
              = Get(game_history.to_play_history, i)
           THEN RatOfInt(reward)
           ELSE RatNeg(RatOfInt(reward)),
           RatPow(discount, i))

\* lines 127-132: one reward of the slice, in the frame of the player at
\* current_index, discounted by its offset i
RewardTerm(game_history, current_index, i, reward, discount) ==
    RatMul(IF Get(game_history.to_play_history, current_index)
              = Get(game_history.to_play_history, current_index + i)
           THEN RatOfInt(reward)
           ELSE RatNeg(RatOfInt(reward)),
           RatPow(discount, i))

\* lines 124-132: the loop over enumerate(reward_history[current_index:bootstrap_index])
RECURSIVE Accumulate(_, _, _, _, _, _)
Accumulate(game_history, current_index, rewards, i, discount, acc) ==
    IF i >= Len(rewards)
    THEN acc
    ELSE Accumulate(game_history, current_index, rewards, i + 1, discount,
            [value |-> RatAdd(acc.value,
                              RewardTerm(game_history, current_index, i,
                                         rewards[i + 1], discount)),
             reads |-> acc.reads \cup {<<"reward_history", current_index + i>>,
                                       <<"to_play_history", current_index>>,
                                       <<"to_play_history", current_index + i>>}])

\* UniformPolicy sized by the number of moves instead of the number of actions
UniformPolicyOverMoves(game_history) ==
    LET size == Len(game_history.child_visits) IN
    [j \in 1..size |-> Rat(1, size)]

\* lines 145-150: [1 / len(child_visits[0]) for _ in range(len(child_visits[0]))]
UniformPolicy(game_history) ==
    LET size == Len(Get(game_history.child_visits, 0)) IN
    [j \in 1..size |-> Rat(1, size)]

\* lines 118-151: one iteration of the loop over current_index
TargetStep(game_history, current_index, td_steps, discount) ==
    LET bootstrap_index == current_index + td_steps
        acc == Accumulate(game_history, current_index,
                          Slice(game_history.reward_history, current_index,
                                bootstrap_index),
                          0, discount,
                          Bootstrap(game_history, current_index, td_steps, discount))
    IN  IF current_index < Len(game_history.root_values)
        THEN [value  |-> acc.value,
              reward |-> Get(game_history.reward_history, current_index),
              policy |-> Get(game_history.child_visits, current_index),
              action |-> Get(game_history.action_history, current_index),
              reads  |-> acc.reads \cup {<<"reward_history", current_index>>,
                                         <<"child_visits", current_index>>,
                                         <<"action_history", current_index>>}]
        ELSE [value  |-> RatOfInt(0),
              reward |-> 0,
              policy |-> UniformPolicy(game_history),
              action |-> 0,
              reads  |-> acc.reads \cup {<<"child_visits", 0>>}]

\* lines 111-153, with the list indices it read; an index outside its list
\* raises IndexError and nothing is returned
make_target_run(game_history, state_index, num_unroll_steps, td_steps, discount) ==
    LET steps == List([j \in 1..(num_unroll_steps + 1) |->
                    TargetStep(game_history, state_index + j - 1, td_steps, discount)])
        reads == UNION {steps[j].reads : j \in 1..(num_unroll_steps + 1)}
        raised == \E r \in reads : ~InRange(game_history[r[1]], r[2])
    IN  IF raised
        THEN [raised |-> TRUE, reads |-> reads,
              target_values |-> <<>>, target_rewards |-> <<>>,
              target_policies |-> <<>>, actions |-> <<>>]
        ELSE [raised |-> FALSE, reads |-> reads,
              target_values   |-> [j \in 1..(num_unroll_steps + 1) |-> steps[j].value],
              target_rewards  |-> [j \in 1..(num_unroll_steps + 1) |-> steps[j].reward],
              target_policies |-> [j \in 1..(num_unroll_steps + 1) |-> steps[j].policy],
              actions         |-> [j \in 1..(num_unroll_steps + 1) |-> steps[j].action]]

\* line 153: the four returned lists
make_target(game_history, state_index, num_unroll_steps, td_steps, discount) ==
    LET run == make_target_run(game_history, state_index, num_unroll_steps,
                               td_steps, discount)
    IN  <<run.target_values, run.target_rewards, run.target_policies, run.actions>>

(* ------------------------------ game histories ------------------------- *)
\* the fields of a game history that replay_buffer.py reads
GameHistory(observations, actions, rewards, values, visits, players) ==
    [observation_history |-> observations,
     action_history      |-> actions,
     reward_history      |-> rewards,
     root_values         |-> values,
     child_visits        |-> visits,
     to_play_history     |-> players]

Half == <<1, 2>>

Third == <<1, 3>>

\* two finished games, of one and of two moves, that self-play hands over
PoolGames ==
    { GameHistory(<<10, 11>>, <<1>>, <<1>>, <<2>>, << <<Half, Half>> >>, <<0>>),
      GameHistory(<<20, 21, 22>>, <<0, 1>>, <<1, 2>>, <<4, 2>>,
                  << <<RatOfInt(1), RatOfInt(0)>>, <<Half, Half>> >>, <<0, 1>>) }

\* action and policy histories of length len: distinct per position over two
\* actions, or constant over three actions
ActionStyles(len) ==
    { [actions |-> [t \in 1..len |-> t],
       visits  |-> [t \in 1..len |-> IF t % 2 = 1
                                     THEN <<RatOfInt(1), RatOfInt(0)>>
                                     ELSE <<Half, Half>>]],
      [actions |-> [t \in 1..len |-> 0],
       visits  |-> [t \in 1..len |-> <<Third, Third, Third>>]] }

\* root values of length len: distinct per position, or all zero
ValueStyles(len) == { [t \in 1..len |-> 4 * t], [t \in 1..len |-> 0] }

\* games of 1..MaxLen moves that satisfy the equal-length invariant
TargetGames ==
    UNION { { GameHistory([t \in 1..(len + 1) |-> t], style.actions, rewards,
                          values, style.visits, players) :
                rewards \in [1..len -> {1, 2}],
                values \in ValueStyles(len),
                players \in [1..len -> {0, 1}],
                style \in ActionStyles(len) } : len \in 1..MaxLen }

Discounts == {RatOfInt(1), Half}

(* ------------------------------ ReplayBuffer --------------------------- *)
NoCall == [op |-> "none", status |-> "ok", exploit_symmetries |-> <<>>, ret |-> <<>>]

NoInput == [called |-> FALSE]

NoTarget == [done |-> FALSE]

\* lines 11-14
Init ==
    /\ config \in [window_size : 1..MaxWindow,
                   batch_size : 1..MaxServedBatch,
                   num_unroll_steps : {BatchUnroll},
                   td_steps : {BatchTd},
                   discount : {Half}]
    /\ buffer = <<>>
    /\ self_play_count = 0
    /\ saved = <<>>
    /\ result = NoCall
    /\ tin = NoInput
    /\ tout = NoTarget

\* Evict that never pops
EvictNothing(buf, window_size) == buf

\* Evict popping the newest entry (pop() for pop(0))
EvictNewest(buf, window_size) ==
    IF Len(buf) > window_size THEN SubSeq(buf, 1, Len(buf) - 1) ELSE buf

\* lines 17-18: if len(self.buffer) > window_size: self.buffer.pop(0)
Evict(buf, window_size) ==
    IF Len(buf) > window_size THEN Tail(buf) ELSE buf

\* save_game recounting the stored games instead of incrementing
save_game_recount(game_history) ==
    /\ self_play_count < MaxGames
    /\ buffer' = Append(Evict(buffer, config.window_size),
                        [id |-> Len(saved) + 1, game |-> game_history])
    /\ self_play_count' = Len(buffer')
    /\ saved' = Append(saved, game_history)
    /\ result' = [NoCall EXCEPT !.op = "save_game"]
    /\ UNCHANGED <<config, tin, tout>>

\* lines 16-20; saved is the history of every game handed to save_game and
\* id the identity of the stored object
save_game(game_history) ==
    /\ self_play_count < MaxGames
    /\ buffer' = Append(Evict(buffer, config.window_size),
                        [id |-> Len(saved) + 1, game |-> game_history])
    /\ self_play_count' = self_play_count + 1
    /\ saved' = Append(saved, game_history)
    /\ result' = [NoCall EXCEPT !.op = "save_game"]
    /\ UNCHANGED <<config, tin, tout>>

\* lines 22-23
get_self_play_count ==
    /\ result' = [NoCall EXCEPT !.op = "get_self_play_count", !.ret = self_play_count]
    /\ UNCHANGED <<config, buffer, self_play_count, saved, tin, tout>>

\* lines 33-37: the number of base samples
BaseBatchSize(batch_size, exploit_symmetries) ==
    IF Sum(exploit_symmetries) = 0
    THEN batch_size
    ELSE batch_size \div (Sum(exploit_symmetries) + 1)

\* RaisesNotDivisible multiplying by the number of flags instead of flags + 1
RaisesNotDivisibleByFlags(batch_size, exploit_symmetries) ==
    Sum(exploit_symmetries) * BaseBatchSize(batch_size, exploit_symmetries)
        # batch_size

\* line 38: the condition under which get_batch raises ValueError
RaisesNotDivisible(batch_size, exploit_symmetries) ==
    (Sum(exploit_symmetries) + 1) * BaseBatchSize(batch_size, exploit_symmetries)
        # batch_size

\* lines 45-46: the (game, position) pairs sample_game and sample_position can draw
SamplePoints(buf) ==
    UNION { { <<g, game_pos>> : game_pos \in 0..(Len(buf[g].game.reward_history) - 1) } :
            g \in 1..Len(buf) }

\* lines 63, 69-77: observation_batch is a list, so each slice chain acts on
\* the list of samples
ExtendObservations(observation_batch, exploit_symmetries) ==
    Copy(observation_batch)
    \o (IF exploit_symmetries[1] = 1
        THEN Copy(Reversed(Copy(Copy(observation_batch)))) ELSE <<>>)
    \o (IF exploit_symmetries[2] = 1
        THEN Reversed(Copy(Copy(Copy(observation_batch)))) ELSE <<>>)
    \o (IF exploit_symmetries[3] = 1
        THEN Reversed(Reversed(Copy(Copy(observation_batch)))) ELSE <<>>)

\* ExtendLabels extending once whatever the number of flags
ExtendLabelsOnce(batch, times) ==
    IF times = 0 THEN Copy(batch) ELSE Copy(batch) \o batch

\* lines 64-67, 79-83: the batch followed by `times` further copies of it
RECURSIVE ExtendLabels(_, _)
ExtendLabels(batch, times) ==
    IF times = 0 THEN Copy(batch) ELSE ExtendLabels(batch, times - 1) \o batch

\* lines 44-91 for one draw of the samples
Batch(buf, cfg, samples, exploit_symmetries) ==
    LET targets == List([j \in 1..Len(samples) |->
                      make_target(buf[samples[j][1]].game, samples[j][2],
                                  cfg.num_unroll_steps, cfg.td_steps, cfg.discount)])
        observation_batch ==
            [j \in 1..Len(samples) |->
                Get(buf[samples[j][1]].game.observation_history, samples[j][2])]
        value_batch  == [j \in 1..Len(samples) |-> targets[j][1]]
        reward_batch == [j \in 1..Len(samples) |-> targets[j][2]]
        policy_batch == [j \in 1..Len(samples) |-> targets[j][3]]
        action_batch == [j \in 1..Len(samples) |-> targets[j][4]]
        k == Sum(exploit_symmetries)
    IN  <<ExtendObservations(observation_batch, exploit_symmetries),
          ExtendLabels(action_batch, k),
          ExtendLabels(value_batch, k),
          ExtendLabels(reward_batch, k),
          ExtendLabels(policy_batch, k)>>

\* lines 25-91: what the call returns or raises
GetBatchResult(exploit_symmetries) ==
    IF RaisesNotDivisible(config.batch_size, exploit_symmetries)
    THEN result' = [NoCall EXCEPT !.op = "get_batch",
                                  !.status = "ValueError: not divisible",
                                  !.exploit_symmetries = exploit_symmetries]
    ELSE IF buffer = <<>>
    THEN result' = [NoCall EXCEPT !.op = "get_batch",
                                  !.status = "ValueError: empty buffer",
                                  !.exploit_symmetries = exploit_symmetries]
    ELSE \E samples \in [1..BaseBatchSize(config.batch_size, exploit_symmetries)
                           -> SamplePoints(buffer)] :
            result' = [NoCall EXCEPT !.op = "get_batch",
                                     !.exploit_symmetries = exploit_symmetries,
                                     !.ret = Batch(buffer, config, samples,
                                                   exploit_symmetries)]

\* get_batch removing the oldest game from the buffer as it samples
get_batch_consuming(exploit_symmetries) ==
    /\ GetBatchResult(exploit_symmetries)
    /\ buffer' = IF buffer = <<>> THEN buffer ELSE Tail(buffer)
    /\ UNCHANGED <<config, self_play_count, saved, tin, tout>>

\* lines 25-91: nothing of the actor is assigned
get_batch(exploit_symmetries) ==
    /\ GetBatchResult(exploit_symmetries)
    /\ UNCHANGED <<config, buffer, self_play_count, saved, tin, tout>>

SymmetryFlags == [1..3 -> {0, 1}]

Next ==
    \/ \E game_history \in PoolGames : save_game(game_history)
    \/ get_self_play_count
    \/ \E exploit_symmetries \in SymmetryFlags : get_batch(exploit_symmetries)

Spec == Init /\ [][Next]_vars

(* ----------------------- make_target on its own ------------------------ *)
InitTarget ==
    /\ config = [window_size |-> 1, batch_size |-> 1, num_unroll_steps |-> BatchUnroll,
                 td_steps |-> BatchTd, discount |-> Half]
    /\ buffer = <<>>
    /\ self_play_count = 0
    /\ saved = <<>>
    /\ result = NoCall
    /\ \E game_history \in TargetGames :
         tin \in [called : {TRUE},
                  game_history : {game_history},
                  state_index : 0..(Len(game_history.reward_history) - 1),
                  num_unroll_steps : 0..MaxUnroll,
                  td_steps : 0..MaxTd,
                  discount : Discounts]
    /\ tout = NoTarget

CallMakeTarget ==
    /\ ~tout.done
    /\ tout' = [done |-> TRUE,
                run |-> make_target_run(tin.game_history, tin.state_index,
                                        tin.num_unroll_steps, tin.td_steps, tin.discount)]
    /\ UNCHANGED <<config, buffer, self_play_count, saved, result, tin>>

NextTarget == CallMakeTarget

SpecTarget == InitTarget /\ [][NextTarget]_vars

(* ------------------- get_batch on a buffer already filled --------------- *)
\* the buffers save_game leaves after at most window_size + 1 = 2 games
FilledBuffers ==
    {<<>>}
    \cup { << [id |-> 1, game |-> g1] >> : g1 \in PoolGames }
    \cup { << [id |-> 1, game |-> g1], [id |-> 2, game |-> g2] >> :
             g1 \in PoolGames, g2 \in PoolGames }

InitBatch ==
    /\ config \in [window_size : {1},
                   batch_size : 1..MaxBatch,
                   num_unroll_steps : {BatchUnroll},
                   td_steps : {BatchTd},
                   discount : {Half}]
    /\ buffer \in FilledBuffers
    /\ self_play_count = Len(buffer)
    /\ saved = [j \in 1..Len(buffer) |-> buffer[j].game]
    /\ result = NoCall
    /\ tin = NoInput
    /\ tout = NoTarget

NextBatch ==
    \/ get_self_play_count
    \/ \E exploit_symmetries \in SymmetryFlags : get_batch(exploit_symmetries)

SpecBatch == InitBatch /\ [][NextBatch]_vars

(* =============================== claims ================================ *)
\* the number of enabled symmetry flags, counted flag by flag
EnabledFlags(exploit_symmetries) ==
    Cardinality({f \in DOMAIN exploit_symmetries : exploit_symmetries[f] = 1})

BatchReturned == result.op = "get_batch" /\ result.status = "ok"

\* C1 as claimed: the number of stored trajectories never exceeds window_size.
C1_WindowBound == Len(buffer) <= config.window_size

\* C1 as amended: the number of stored trajectories never exceeds
\* window_size + 1, in any state between calls.
C1_WindowBoundPlusOne == Len(buffer) <= config.window_size + 1

\* an eviction has happened and the buffer holds window_size + 1 games
C1_Witness ==
    /\ Len(saved) > config.window_size + 1
    /\ Len(buffer) = config.window_size + 1

\* C2: numbering the saved games 1..N in call order, the buffer holds the
\* most recent ones, contiguous and in insertion order, ending with game N;
\* and whenever N > window_size the oldest stored game is number N - window_size.
C2_FifoEviction ==
    LET N == Len(saved) IN
    /\ N >= 1 => Len(buffer) >= 1
    /\ \A i \in 1..Len(buffer) :
          /\ buffer[i].id = N - Len(buffer) + i
          /\ buffer[i].id \in 1..N
          /\ buffer[i].game = saved[buffer[i].id]
    /\ N > config.window_size => buffer[1].id = N - config.window_size

\* a save_game that evicted: more than window_size + 1 games were saved
C2_Witness ==
    /\ result.op = "save_game"
    /\ Len(saved) > config.window_size + 1
    /\ buffer[1].id = 2

\* C3: the counter equals the number N of save_game calls made so far,
\* get_self_play_count returns N, and each step either is a save_game that
\* raises the counter by exactly 1 or leaves it as it is.
C3_Counter ==
    /\ [](/\ self_play_count = Len(saved)
          /\ result.op = "get_self_play_count" => result.ret = Len(saved))
    /\ [][self_play_count' = IF result'.op = "save_game"
                             THEN self_play_count + 1
                             ELSE self_play_count]_vars

\* get_self_play_count answered after an eviction
C3_Witness ==
    /\ result.op = "get_self_play_count"
    /\ result.ret > config.window_size + 1
    /\ Len(buffer) < result.ret

\* C4: get_batch raises the divisibility error exactly when batch_size is not
\* a multiple of (enabled flags + 1), also on an empty buffer, and then
\* returns nothing; 100 with one flag passes, 100 with two flags fails.
C4_Divisibility ==
    /\ result.op = "get_batch" =>
          /\ (result.status = "ValueError: not divisible")
                <=> (config.batch_size % (EnabledFlags(result.exploit_symmetries) + 1) # 0)
          /\ result.status # "ok" => result.ret = <<>>
    /\ ~RaisesNotDivisible(100, <<1, 0, 0>>)
    /\ RaisesNotDivisible(100, <<1, 1, 0>>)

\* the divisibility error raised on an empty buffer, before any sampling
C4_Witness ==
    /\ result.op = "get_batch"
    /\ result.status = "ValueError: not divisible"
    /\ buffer = <<>>
    /\ EnabledFlags(result.exploit_symmetries) = 2

\* C5: each of the five sequences of a returned batch has length batch_size.
C5_BatchSize ==
    BatchReturned => \A j \in 1..5 : Len(result.ret[j]) = config.batch_size

\* a batch returned with all three symmetries enabled
C5_Witness ==
    /\ BatchReturned
    /\ EnabledFlags(result.exploit_symmetries) = 3
    /\ Len(result.ret[1]) = 4

\* C6: in a batch returned with a symmetry enabled, the observation at every
\* index belongs to a base sample whose action, value, reward and policy
\* sequences are the ones at that index.
C6_LabelAlignment ==
    (BatchReturned /\ EnabledFlags(result.exploit_symmetries) >= 1) =>
        LET n == config.batch_size \div (EnabledFlags(result.exploit_symmetries) + 1) IN
        \A i \in 1..Len(result.ret[1]) :
            \E j \in 1..n : \A part \in 1..5 : result.ret[part][i] = result.ret[part][j]

\* the moves of the game make_target was called on
TargetLen == Len(tin.game_history.root_values)

\* the step indices c = state_index .. state_index + num_unroll_steps
UnrolledIndices == tin.state_index..(tin.state_index + tin.num_unroll_steps)

\* the position of step index c in the returned sequences
Slot(c) == c - tin.state_index + 1

\* sum over i in [0, m) of s_i * rewards[c + i] * discount^i, where s_i is +1
\* when the player at c + i is the player at c and -1 otherwise
RECURSIVE SignedRewardSum(_, _, _, _)
SignedRewardSum(g, c, discount, m) ==
    IF m = 0
    THEN RatOfInt(0)
    ELSE LET i == m - 1
             sign == IF g.to_play_history[c + i + 1] = g.to_play_history[c + 1]
                     THEN 1 ELSE -1
         IN  RatAdd(SignedRewardSum(g, c, discount, i),
                    RatMul(RatOfInt(sign * g.reward_history[c + i + 1]),
                           RatPow(discount, i)))

\* the value target the claim states for step index c < L
ClaimedValue(g, c, td_steps, discount) ==
    RatAdd(IF c + td_steps < Len(g.root_values)
           THEN RatMul(RatOfInt(g.root_values[c + td_steps + 1]),
                       RatPow(discount, td_steps))
           ELSE RatOfInt(0),
           SignedRewardSum(g, c, discount, Min(td_steps, Len(g.root_values) - c)))

\* C7: for every step index c < L of the unroll, the value target is the
\* discounted root value td_steps ahead (0 past the end) plus the discounted
\* rewards of the next min(td_steps, L - c) moves, each negated when its
\* player is not the player at c; the reward, policy and action targets are
\* rewards[c], child_visits[c] and actions[c].
C7_BootstrapValue ==
    tout.done =>
        /\ ~tout.run.raised
        /\ \A c \in UnrolledIndices :
              c < TargetLen =>
                 /\ tout.run.target_values[Slot(c)]
                      = ClaimedValue(tin.game_history, c, tin.td_steps, tin.discount)
                 /\ tout.run.target_rewards[Slot(c)] = tin.game_history.reward_history[c + 1]
                 /\ tout.run.target_policies[Slot(c)] = tin.game_history.child_visits[c + 1]
                 /\ tout.run.actions[Slot(c)] = tin.game_history.action_history[c + 1]

\* the zero-sum example: rewards 1,1,1, players A,B,A, discount 1/2,
\* td_steps 2, start 0 gives 0 + 1 - 1/2 = 1/2
C7_Witness ==
    /\ tout.done
    /\ tin.game_history.reward_history = <<1, 1, 1>>
    /\ tin.game_history.to_play_history = <<0, 1, 0>>
    /\ tin.game_history.root_values = <<0, 0, 0>>
    /\ tin.state_index = 0
    /\ tin.td_steps = 2
    /\ tin.discount = Half
    /\ tout.run.target_values[1] = Half

\* C8: the four returned sequences have length num_unroll_steps + 1, and
\* every step index c >= L yields value 0, reward 0, action 0 and a policy
\* of len(child_visits[0]) entries, each 1 / len(child_visits[0]), summing to 1.
C8_AbsorbingState ==
    tout.done =>
        LET size == Len(tin.game_history.child_visits[1]) IN
        /\ Len(tout.run.target_values) = tin.num_unroll_steps + 1
        /\ Len(tout.run.target_rewards) = tin.num_unroll_steps + 1
        /\ Len(tout.run.target_policies) = tin.num_unroll_steps + 1
        /\ Len(tout.run.actions) = tin.num_unroll_steps + 1
        /\ \A c \in UnrolledIndices :
              c >= TargetLen =>
                 /\ tout.run.target_values[Slot(c)] = RatOfInt(0)
                 /\ tout.run.target_rewards[Slot(c)] = 0
                 /\ tout.run.actions[Slot(c)] = 0
                 /\ Len(tout.run.target_policies[Slot(c)]) = size
                 /\ \A a \in 1..size : tout.run.target_policies[Slot(c)][a] = <<1, size>>
                 /\ RatSum(tout.run.target_policies[Slot(c)]) = RatOfInt(1)

\* an unroll that runs two steps past a two-move game with three actions and
\* nonzero rewards and root values
C8_Witness ==
    /\ tout.done
    /\ TargetLen = 2
    /\ tin.state_index = 1
    /\ tin.num_unroll_steps = 2
    /\ tin.td_steps = 1
    /\ tin.game_history.root_values = <<4, 8>>
    /\ Len(tin.game_history.child_visits[1]) = 3
    /\ tout.run.target_policies[3] = <<Third, Third, Third>>

\* C9: make_target raises no IndexError: every index it reads from
\* reward_history, to_play_history, root_values, child_visits or
\* action_history lies in [0, L).
C9_NoOutOfBounds ==
    tout.done =>
        /\ ~tout.run.raised
        /\ \A r \in tout.run.reads : 0 <= r[2] /\ r[2] < TargetLen

\* a call whose bootstrap index and whose unroll both pass the end
C9_Witness ==
    /\ tout.done
    /\ tin.state_index + tin.td_steps >= TargetLen
    /\ tin.state_index + tin.num_unroll_steps >= TargetLen
    /\ tin.td_steps >= 1
    /\ <<"to_play_history", TargetLen - 1>> \in tout.run.reads
    /\ <<"child_visits", 0>> \in tout.run.reads

\* the buffer that the save_game calls alone leave, in their order
RECURSIVE SavesAlone(_, _)
SavesAlone(games, window_size) ==
    IF games = <<>>
    THEN <<>>
    ELSE LET before == SavesAlone(SubSeq(games, 1, Len(games) - 1), window_size) IN
         Append(IF Len(before) > window_size THEN Tail(before) ELSE before,
                [id |-> Len(games), game |-> games[Len(games)]])

\* C10: a get_batch or get_self_play_count call, whatever it returns or
\* raises, leaves the stored games and the counter as they were; so the
\* buffer and the counter are always those of the save_game calls alone.
C10_ConsumersReadOnly ==
    /\ [](/\ buffer = SavesAlone(saved, config.window_size)
          /\ self_play_count = Len(saved))
    /\ [][result'.op \in {"get_batch", "get_self_play_count"}
            => buffer' = buffer /\ self_play_count' = self_play_count]_vars

\* a batch returned from a buffer that has already evicted a game
C10_Witness ==
    /\ BatchReturned
    /\ Len(saved) > config.window_size + 1
    /\ Len(buffer) = config.window_size + 1

====
